---- MODULE Spec2Model ----
(***************************************************************************)
(* vmmap for Darling: the procfs reader (Map, LinuxToVmmap, ParseSize,     *)
(* MakeTagSet), the argument parser (ParseArgs) and the report of          *)
(* print.cpp (Print, PrintSummary, PrintMalloc), as a state machine.       *)
(*                                                                         *)
(* Strings are TLA+ strings; a character is a string of length 1, read     *)
(* with SubSeq.  Integers are the model checker's: every size and address  *)
(* of the bounded inputs stays below 2^31, where the program's 64-bit      *)
(* size_t / intptr_t arithmetic does not wrap.                             *)
(***************************************************************************)
EXTENDS Integers, Sequences, FiniteSets, TLC

VARIABLES
    pc,                 \* position in main: Map's steps, then Print's
    errno,              \* errno as Map reads it after getpgid (lines 70-80)
    smapsOpen,          \* whether /proc/<pid>/smaps can be opened (line 90)
    mapsOpen,           \* whether /proc/<pid>/maps can be opened (line 96)
    source,             \* which file proc_maps ended up reading
    input,              \* the lines std::getline has returned so far
    firstLine,          \* Map's local firstLine
    currentLinuxEntry,  \* Map's local currentLinuxEntry
    entries,            \* Map's local entries, then Print's argument
    classified,         \* the arguments of the LinuxToVmmap calls so far
    error,              \* the exception that ended the request, or NoError
    size,               \* ParseSize's argument (ParseSize on its own)
    parsed,             \* ParseSize's outcome (ParseSize on its own)
    regions,            \* PrintSummary's local regions
    mallocZones,        \* PrintMalloc's local mallocZones
    argv,               \* ParseArgs's arguments, argv[1] onwards
    args,               \* the VmmapArgs of ParseArgs and of Print
    lists,              \* Print's locals nonWritable and writable
    totals,             \* PrintSummary's five running totals
    pageSize,           \* the page size read from the first entry
    percents            \* the calls of Percent so far, with their results

vars == <<pc, errno, smapsOpen, mapsOpen, source, input, firstLine,
          currentLinuxEntry, entries, classified, error, size, parsed,
          regions, mallocZones, argv, args, lists, totals, pageSize,
          percents>>

mapVars == <<errno, smapsOpen, mapsOpen, source, input, firstLine,
             currentLinuxEntry, classified, error>>

argVars == <<argv, args>>

printVars == <<lists, totals, pageSize, percents>>

(***************************************************************************)
(* Bounds of the model.                                                    *)
(***************************************************************************)
MaxLines == 4

MaxNum == 12

MaxEntries == 3

MaxArgs == 2

(***************************************************************************)
(* Characters and the std::string operations the program uses.             *)
(***************************************************************************)
Ch(s, i) == SubSeq(s, i, i)

Chars(s) == {Ch(s, i) : i \in 1..Len(s)}

\* [0-9a-fA-F] of Map's regex
HexDigits == Chars("0123456789abcdefABCDEF")

\* [rwxsp-] of Map's regex
PermChars == Chars("rwxsp-")

\* \s of Map's regex and the whitespace operator>> skips
Space == {" ", "\t"}

Digits == Chars("0123456789")

\* The index after the longest run of characters of class C that starts at i.
RECURSIVE Skip(_, _, _)
Skip(s, i, C) ==
    IF i <= Len(s) /\ Ch(s, i) \in C THEN Skip(s, i + 1, C) ELSE i

\* The index after the longest run of characters outside C that starts at i.
RECURSIVE SkipNot(_, _, _)
SkipNot(s, i, C) ==
    IF i <= Len(s) /\ Ch(s, i) \notin C THEN SkipNot(s, i + 1, C) ELSE i

\* s.substr(i - 1) with a 1-based i <= Len(s) + 1
From(s, i) == SubSeq(s, i, Len(s))

\* std::string::find of a one-character string: the 1-based index of the
\* first occurrence at or after i, or 0 for npos.
RECURSIVE Find(_, _, _)
Find(s, c, i) ==
    IF i > Len(s) THEN 0
    ELSE IF Ch(s, i) = c THEN i
    ELSE Find(s, c, i + 1)

DigitVal(c) ==
    IF c \in Digits
    THEN (CHOOSE i \in 1..10 : Ch("0123456789", i) = c) - 1
    ELSE IF c \in Chars("abcdef")
    THEN (CHOOSE i \in 1..6 : Ch("abcdef", i) = c) + 9
    ELSE (CHOOSE i \in 1..6 : Ch("ABCDEF", i) = c) + 9

\* The value of a non-empty run of digits in the given base.
RECURSIVE NumVal(_, _)
NumVal(s, base) ==
    IF Len(s) = 0 THEN 0
    ELSE NumVal(SubSeq(s, 1, Len(s) - 1), base) * base + DigitVal(Ch(s, Len(s)))

\* std::to_string of an int
RECURSIVE to_string(_)
to_string(n) ==
    IF n < 0 THEN "-" \o to_string(0 - n)
    ELSE IF n < 10 THEN Ch("0123456789", n + 1)
    ELSE to_string(n \div 10) \o Ch("0123456789", (n % 10) + 1)

(***************************************************************************)
(* Exceptions.  A call either returns a value or throws; what names the    *)
(* exception by its message.                                               *)
(***************************************************************************)
NoError == "none"

\* BadPerm's message (line 188)
MsgNotRunning == "no longer appears to be running"

\* BadPid's message (line 193)
MsgNoPrivileges == "you do not have appropriate privileges"

\* ParseSize's message (line 217)
MsgParseSize == "Failed to parse size"

\* what() of the std::invalid_argument of std::stoull / std::stoi
MsgStoull == "stoull"

MsgStoi == "stoi"

\* what() of the std::out_of_range of std::string::substr
MsgSubstr == "basic_string::substr"

Ok(v) == [ok |-> TRUE, val |-> v, what |-> NoError]

Throw(msg) == [ok |-> FALSE, val |-> 0, what |-> msg]

(***************************************************************************)
(* ParseSize (lines 196-219).  ss >> num skips whitespace and reads an     *)
(* unsigned decimal number (an optional '+' first); when no digit is       *)
(* there the stream fails and unit stays empty.  ss >> unit skips          *)
(* whitespace and reads up to the next whitespace.                         *)
(***************************************************************************)
\* ParseSize with MB scaled like kB
ParseSizeWrongMB(str) ==
    LET b == Skip(str, 1, Space)
        p == IF b <= Len(str) /\ Ch(str, b) = "+" THEN b + 1 ELSE b
        e == Skip(str, p, Digits)
        num == NumVal(SubSeq(str, p, e - 1), 10)
        ub == Skip(str, e, Space)
        ue == SkipNot(str, ub, Space)
        unit == IF e > p THEN SubSeq(str, ub, ue - 1) ELSE ""
    IN  IF unit = "kB" THEN Ok(num * 1024)
        ELSE IF unit = "MB" THEN Ok(num * 1024)
        ELSE IF unit = "GB" THEN Ok(num * 1024 * 1024 * 1024)
        ELSE Throw(MsgParseSize)

\* Lines 196-219
ParseSize(str) ==
    LET b == Skip(str, 1, Space)
        p == IF b <= Len(str) /\ Ch(str, b) = "+" THEN b + 1 ELSE b
        e == Skip(str, p, Digits)
        num == NumVal(SubSeq(str, p, e - 1), 10)
        ub == Skip(str, e, Space)
        ue == SkipNot(str, ub, Space)
        unit == IF e > p THEN SubSeq(str, ub, ue - 1) ELSE ""
    IN  IF unit = "kB" THEN Ok(num * 1024)
        ELSE IF unit = "MB" THEN Ok(num * 1024 * 1024)
        ELSE IF unit = "GB" THEN Ok(num * 1024 * 1024 * 1024)
        ELSE Throw(MsgParseSize)

(***************************************************************************)
(* MakeTagSet (lines 221-234).  The loop runs while the stream is not at   *)
(* end of file: an extraction that finds only whitespace (or nothing)      *)
(* leaves tag empty and inserts the empty string.                          *)
(***************************************************************************)
RECURSIVE TagsFrom(_, _)
TagsFrom(str, i) ==
    LET b == Skip(str, i, Space)
        e == SkipNot(str, b, Space)
    IN  IF b > Len(str) THEN {""}
        ELSE {SubSeq(str, b, e - 1)}
                 \cup (IF e > Len(str) THEN {} ELSE TagsFrom(str, e))

MakeTagSet(str) == TagsFrom(str, 1)

(***************************************************************************)
(* LinuxToVmmap (lines 236-359), in the order of its statements.           *)
(***************************************************************************)
\* The enum of map.h: 0-based positions in prt and max.
READ_INDEX == 0

WRITE_INDEX == 1

EXECUTE_INDEX == 2

\* str[index] for index <= str.size(); str[str.size()] is the null character,
\* written "" here.
At(str, index) == Ch(str, index + 1)

\* sysconf(_SC_PAGESIZE) of the host (line 250)
HostPageSize == 4096

SizeTags == {"KernelPageSize", "Size", "Rss", "Shared_Dirty",
             "Private_Dirty", "Swap"}

\* entry.tags.count(name) != 0
Has(entry, name) == name \in DOMAIN entry.tags

\* Lines 241-286 with rss falling back to the address range, not to vsize
SizesRssFromRange(entry) ==
    LET P(name) == ParseSize(entry.tags[name])
        vsize == IF Has(entry, "Size") THEN P("Size").val
                 ELSE entry.end - entry.start
    IN  IF \E name \in SizeTags : Has(entry, name) /\ ~P(name).ok
        THEN Throw(MsgParseSize)
        ELSE Ok([startAddress |-> entry.start,
                 endAddress |-> entry.end,
                 pageSize |-> IF Has(entry, "KernelPageSize")
                              THEN P("KernelPageSize").val
                              ELSE HostPageSize,
                 vsize |-> vsize,
                 rss |-> IF Has(entry, "Rss") THEN P("Rss").val
                         ELSE entry.end - entry.start,
                 dirty |-> (IF Has(entry, "Shared_Dirty")
                            THEN P("Shared_Dirty").val ELSE 0)
                           + (IF Has(entry, "Private_Dirty")
                              THEN P("Private_Dirty").val ELSE 0),
                 swap |-> IF Has(entry, "Swap") THEN P("Swap").val ELSE 0])

\* Lines 241-286: the numbers.  Every ParseSize call of an attribute that is
\* present can throw, and they all throw the same exception.
Sizes(entry) ==
    LET P(name) == ParseSize(entry.tags[name])
        vsize == IF Has(entry, "Size") THEN P("Size").val
                 ELSE entry.end - entry.start
    IN  IF \E name \in SizeTags : Has(entry, name) /\ ~P(name).ok
        THEN Throw(MsgParseSize)
        ELSE Ok([startAddress |-> entry.start,
                 endAddress |-> entry.end,
                 pageSize |-> IF Has(entry, "KernelPageSize")
                              THEN P("KernelPageSize").val
                              ELSE HostPageSize,
                 vsize |-> vsize,
                 rss |-> IF Has(entry, "Rss") THEN P("Rss").val ELSE vsize,
                 dirty |-> (IF Has(entry, "Shared_Dirty")
                            THEN P("Shared_Dirty").val ELSE 0)
                           + (IF Has(entry, "Private_Dirty")
                              THEN P("Private_Dirty").val ELSE 0),
                 swap |-> IF Has(entry, "Swap") THEN P("Swap").val ELSE 0])

\* Lines 291-296: prt
Prt(entry) ==
    IF entry.permissions # "" THEN SubSeq(entry.permissions, 1,
                                          IF Len(entry.permissions) < 3
                                          THEN Len(entry.permissions) ELSE 3)
    ELSE "???"

\* Lines 298-322, with a flag counted wherever its two letters occur
RECURSIVE Occurs(_, _, _)
Occurs(str, word, i) ==
    /\ i + Len(word) - 1 <= Len(str)
    /\ \/ SubSeq(str, i, i + Len(word) - 1) = word
       \/ Occurs(str, word, i + 1)

MaxByLetters(entry) ==
    IF Has(entry, "VmFlags")
    THEN LET flags == entry.tags["VmFlags"]
         IN  (IF Occurs(flags, "mr", 1) THEN "r" ELSE "-")
                 \o (IF Occurs(flags, "mw", 1) THEN "w" ELSE "-")
                 \o (IF Occurs(flags, "me", 1) THEN "x" ELSE "-")
    ELSE "???"

\* Lines 298-322: max
Max(entry) ==
    IF Has(entry, "VmFlags")
    THEN LET flags == MakeTagSet(entry.tags["VmFlags"])
         IN  (IF "mr" \in flags THEN "r" ELSE "-")
                 \o (IF "mw" \in flags THEN "w" ELSE "-")
                 \o (IF "me" \in flags THEN "x" ELSE "-")
    ELSE "???"

\* std::stoi: leading whitespace, an optional sign, then decimal digits;
\* std::invalid_argument when there is no digit.
stoi(str) ==
    LET b == Skip(str, 1, Space)
        signed == b <= Len(str) /\ Ch(str, b) \in {"+", "-"}
        p == IF signed THEN b + 1 ELSE b
        e == Skip(str, p, Digits)
        n == NumVal(SubSeq(str, p, e - 1), 10)
    IN  IF e = p THEN Throw(MsgStoi)
        ELSE Ok(IF signed /\ Ch(str, b) = "-" THEN 0 - n ELSE n)

\* Lines 332-356, with the detail of a thread stack left as line 332 set it
RegionDetailKept(entry) ==
    LET d == entry.description
    IN  IF Find(d, "/", 1) # 0
        THEN Ok([regionType |-> "mapped file", regionDetail |-> d])
        ELSE IF d = "HEAP"
        THEN Ok([regionType |-> "MALLOC", regionDetail |-> d])
        ELSE IF d = "[stack]"
        THEN Ok([regionType |-> "Stack", regionDetail |-> d])
        ELSE IF SubSeq(d, 1, IF Len(d) < 7 THEN Len(d) ELSE 7) = "[stack:"
        THEN LET id == stoi(From(d, 8))
             IN  IF id.ok
                 THEN Ok([regionType |-> "Stack", regionDetail |-> d])
                 ELSE Throw(id.what)
        ELSE Ok([regionType |-> "VM_ALLOCATE", regionDetail |-> d])

\* Lines 332-356: regionDetail and regionType
Region(entry) ==
    LET d == entry.description
    IN  IF Find(d, "/", 1) # 0
        THEN Ok([regionType |-> "mapped file", regionDetail |-> d])
        ELSE IF d = "HEAP"
        THEN Ok([regionType |-> "MALLOC", regionDetail |-> d])
        ELSE IF d = "[stack]"
        THEN Ok([regionType |-> "Stack", regionDetail |-> d])
        ELSE IF SubSeq(d, 1, IF Len(d) < 7 THEN Len(d) ELSE 7) = "[stack:"
        THEN LET id == stoi(From(d, 8))
             IN  IF id.ok
                 THEN Ok([regionType |-> "Stack",
                          regionDetail |-> "thread " \o to_string(id.val)])
                 ELSE Throw(id.what)
        ELSE Ok([regionType |-> "VM_ALLOCATE", regionDetail |-> d])

LinuxToVmmap(entry) ==
    LET sizes == Sizes(entry)
        region == Region(entry)
    IN  IF ~sizes.ok THEN Throw(sizes.what)
        ELSE IF ~region.ok THEN Throw(region.what)
        ELSE Ok([regionType |-> region.val.regionType,
                 startAddress |-> sizes.val.startAddress,
                 endAddress |-> sizes.val.endAddress,
                 vsize |-> sizes.val.vsize,
                 rss |-> sizes.val.rss,
                 dirty |-> sizes.val.dirty,
                 swap |-> sizes.val.swap,
                 pageSize |-> sizes.val.pageSize,
                 prt |-> Prt(entry),
                 max |-> Max(entry),
                 shrmod |-> "NUL",
                 purge |-> "",
                 regionDetail |-> region.val.regionDetail])

(***************************************************************************)
(* Map (lines 67-184).                                                     *)
(*                                                                         *)
(* The regex of line 105 is a chain of starred character classes around    *)
(* the literals '-' and ':'.  The classes next to each other are disjoint  *)
(* and neither literal belongs to the class before it, so the leftmost-    *)
(* longest run for every class is the match std::regex_match finds, and    *)
(* when that assignment fails no other succeeds.                           *)
(***************************************************************************)
regex_match(line) ==
    LET e1 == Skip(line, 1, HexDigits)
        e2 == Skip(line, e1 + 1, HexDigits)
        b3 == Skip(line, e2, Space)
        e3 == Skip(line, b3, PermChars)
        b4 == Skip(line, e3, Space)
        e4 == Skip(line, b4, HexDigits)
        b5 == Skip(line, e4, Space)
        e5 == Skip(line, b5, HexDigits)
        e6 == Skip(line, e5 + 1, HexDigits)
        b7 == Skip(line, e6, Space)
        e7 == Skip(line, b7, HexDigits)
        b8 == Skip(line, e7, Space)
    IN  IF /\ e1 <= Len(line) /\ Ch(line, e1) = "-"
           /\ e5 <= Len(line) /\ Ch(line, e5) = ":"
        THEN [ok |-> TRUE,
              g1 |-> SubSeq(line, 1, e1 - 1),
              g2 |-> SubSeq(line, e1 + 1, e2 - 1),
              g3 |-> SubSeq(line, b3, e3 - 1),
              g4 |-> SubSeq(line, b4, e4 - 1),
              g5 |-> SubSeq(line, b5, e5 - 1),
              g6 |-> SubSeq(line, e5 + 1, e6 - 1),
              g7 |-> SubSeq(line, b7, e7 - 1),
              g8 |-> From(line, b8)]
        ELSE [ok |-> FALSE]

\* std::stoull(str, nullptr, 16) of a run of hex digits:
\* std::invalid_argument when the run is empty.
stoull(str) ==
    IF str = "" THEN Throw(MsgStoull) ELSE Ok(NumVal(str, 16))

BadPerm == MsgNotRunning

BadPid == MsgNoPrivileges

\* The tags of a default-constructed LinuxEntry
NoTags == [name \in {} |-> ""]

\* LinuxEntry currentLinuxEntry; (line 103).  start, end and offset are not
\* initialised there; Map writes them (lines 127-131) before any read.
NewLinuxEntry ==
    [start |-> 0, end |-> 0, permissions |-> "", offset |-> 0, dev |-> "",
     inode |-> "", description |-> "", tags |-> NoTags]

\* currentLinuxEntry.tags[name] = value (line 146)
SetTag(tags, name, value) ==
    [n \in DOMAIN tags \cup {name} |-> IF n = name THEN value ELSE tags[n]]

\* Lines 127-134: the fields of the header line; tags is not assigned.
HeaderFields(cur, m) ==
    [start |-> stoull(m.g1).val,
     end |-> stoull(m.g2).val,
     permissions |-> m.g3,
     offset |-> stoull(m.g4).val,
     dev |-> m.g5 \o ":" \o m.g6,
     inode |-> m.g7,
     description |-> m.g8,
     tags |-> cur.tags]

SystemPrefix == "/Volumes/SystemRoot"

IsExecutable(entry) == At(entry.prt, EXECUTE_INDEX) = "x"

\* Lines 153-163 with the prefix on every entry, whatever its type.
PrefixedWhateverType(es) ==
    [i \in 1..Len(es) |-> [es[i] EXCEPT !.regionDetail = SystemPrefix \o @]]

\* Lines 153-163, the writes to entries: the prefix on every mapped file.
Prefixed(es) ==
    [i \in 1..Len(es) |->
        IF es[i].regionType = "mapped file"
        THEN [es[i] EXCEPT !.regionDetail = SystemPrefix \o @]
        ELSE es[i]]

\* Lines 151-163, the set the first loop collects (over the prefixed list).
executeableFiles(es) ==
    {es[i].regionDetail :
        i \in {j \in 1..Len(es) : /\ es[j].regionType = "mapped file"
                                  /\ IsExecutable(es[j])}}

\* Lines 165-181 with every executable mapping left as "mapped file".
RelabelDataOnly(es, files) ==
    [i \in 1..Len(es) |->
        IF es[i].regionType = "mapped file" /\ es[i].regionDetail \in files
        THEN [es[i] EXCEPT !.regionType =
                  IF IsExecutable(es[i]) THEN "mapped file" ELSE "__DATA"]
        ELSE es[i]]

\* Lines 165-181: the second loop.
Relabel(es, files) ==
    [i \in 1..Len(es) |->
        IF es[i].regionType = "mapped file" /\ es[i].regionDetail \in files
        THEN [es[i] EXCEPT !.regionType =
                  IF IsExecutable(es[i]) THEN "__TEXT" ELSE "__DATA"]
        ELSE es[i]]

SecondPass(es) == Relabel(Prefixed(es), executeableFiles(Prefixed(es)))

(***************************************************************************)
(* The lines a memory-map file of the model can hold.  A file draws its    *)
(* lines from one family.                                                  *)
(***************************************************************************)
Header(range, permissions, description) ==
    range \o " " \o permissions \o " 00000000 08:01 12345 " \o description

\* Records with and without size attributes, well-formed and not.
AttributeLines ==
    {Header("1000-3000", "rw-p", ""),
     Header("7000-8000", "r--p", "HEAP"),
     "Size:                  4 kB",
     "Rss:                   8 kB",
     "Shared_Dirty:          4 kB",
     "Private_Dirty:         8 kB",
     "Swap:                  1 MB",
     "KernelPageSize:        8 kB",
     "Size:                  4 xB"}

\* Records of every kind of description.
DescriptionLines ==
    {Header("00400000-00401000", "r-xp", "/bin/true"),
     Header("00600000-00602000", "rw-p", "/bin/true"),
     Header("1000-2000", "r--p", "/lib/ld.so"),
     Header("3000-5000", "rw-p", "HEAP"),
     Header("6000-7000", "rw-p", "[stack]"),
     Header("8000-9000", "rw-p", "[stack:7]"),
     Header("a000-b000", "rw-p", "[stack:]"),
     Header("c000-d000", "r-xp", "[vdso]"),
     Header("e000-f000", "---p", "")}

\* Header lines whose permission field is not the kernel's four characters:
\* [rwxsp-]* of the regex takes a field of any length, in any order.  No
\* field here has one character only: prt would have size 1 and
\* prt[EXECUTE_INDEX] (lines 155, 171) would read past its null character.
PermissionLines ==
    {Header("1000-2000", "r-xp", "/bin/true"),
     Header("3000-4000", "", ""),
     Header("5000-6000", "rw", ""),
     Header("7000-8000", "rwp", "HEAP")}

\* Records with an empty address range and with page sizes of their own.
\* No range here ends before it starts: end - start (line 259) would wrap.
RangeLines ==
    {Header("1000-2000", "rw-p", ""),
     Header("2000-2000", "rw-p", ""),
     "KernelPageSize:        0 kB",
     "KernelPageSize:        4 kB"}

\* Lines that are neither header lines nor label-and-value lines, among
\* lines that are.
OtherLines ==
    {Header("1000-2000", "rw-p", ""),
     "Size:                  4 kB",
     "no label on this line",
     "Name:",
     "Name:   "}

Families ==
    {AttributeLines, DescriptionLines, PermissionLines, RangeLines, OtherLines}

\* The lines getline can return next, given the lines read so far.  The
\* minimal source (maps) holds header lines only.
NextLines ==
    {line \in UNION {F \in Families : \A i \in 1..Len(input) : input[i] \in F} :
        source = "maps" => regex_match(line).ok}

(***************************************************************************)
(* The steps of Map.                                                       *)
(***************************************************************************)
Idle == /\ size = "" /\ parsed = Ok(0)
        /\ regions = <<>> /\ mallocZones = <<>>

\* VmmapArgs vmmapArgs as ParseArgs declares it: no flag set, and the pid
\* that line 461 takes for "no process specified"
NewVmmapArgs ==
    [pid |-> -1, wide |-> FALSE, pages |-> FALSE, interleaved |-> FALSE,
     submap |-> FALSE, allSplitLibs |-> FALSE, noCoalesce |-> FALSE,
     summary |-> FALSE, stacks |-> FALSE, fullStacks |-> FALSE,
     forkCorpse |-> FALSE]

IdleArgs == argv = <<>> /\ args = NewVmmapArgs

\* Print's two lists, before the loop of lines 100-110
NoLists == [nonWritable |-> <<>>, writable |-> <<>>]

\* PrintSummary's totals, as lines 405-410 initialise them
NewTotals ==
    [readOnlyTotal |-> 0, readOnlyRss |-> 0,
     writeTotal |-> 0, writeRss |-> 0, writeSwap |-> 0]

IdlePrint ==
    /\ lists = NoLists /\ totals = NewTotals /\ pageSize = <<>>
    /\ percents = <<>>

Init ==
    /\ pc = "Map"
    /\ errno = "unread" /\ smapsOpen = "untried" /\ mapsOpen = "untried"
    /\ source = "none"
    /\ input = <<>>
    /\ firstLine = TRUE
    /\ currentLinuxEntry = NewLinuxEntry
    /\ entries = <<>>
    /\ classified = <<>>
    /\ error = NoError
    /\ Idle /\ IdleArgs /\ IdlePrint

Errnos == {"0", "ESRCH", "EINVAL", "EPERM"}

\* Lines 69-101: getpgid and errno, then the two files.  maps is tried only
\* when smaps did not open.
MapOpen ==
    /\ pc = "Map"
    /\ \E e \in Errnos, s \in {"yes", "no"}, m \in {"yes", "no"} :
        /\ errno' = e
        /\ smapsOpen' = IF e = "0" THEN s ELSE "untried"
        /\ mapsOpen' = IF e = "0" /\ s = "no" THEN m ELSE "untried"
        /\ IF e \in {"ESRCH", "EINVAL"}
           THEN pc' = "failed" /\ error' = BadPid /\ source' = source
           ELSE IF e = "EPERM"
           THEN pc' = "failed" /\ error' = BadPerm /\ source' = source
           ELSE IF s = "yes"
           THEN pc' = "loop" /\ error' = error /\ source' = "smaps"
           ELSE IF m = "yes"
           THEN pc' = "loop" /\ error' = error /\ source' = "maps"
           ELSE pc' = "failed" /\ error' = BadPid /\ source' = source
    /\ UNCHANGED <<input, firstLine, currentLinuxEntry, entries, classified,
                   size, parsed, regions, mallocZones, argVars, printVars>>

\* Lines 108-149: one turn of the loop, on the line getline returns.
MapLine ==
    /\ pc = "loop"
    /\ Len(input) < MaxLines
    /\ \E line \in NextLines :
        /\ input' = Append(input, line)
        /\ LET m == regex_match(line)
               r == LinuxToVmmap(currentLinuxEntry)
               splitIndex == Find(line, ":", 1)
               valueIndex == Skip(line, splitIndex + 1, {" "})
           IN  IF m.ok
               THEN /\ firstLine' = FALSE
                    /\ classified' = IF firstLine THEN classified
                                     ELSE Append(classified, currentLinuxEntry)
                    /\ IF ~firstLine /\ ~r.ok
                       THEN /\ pc' = "failed" /\ error' = r.what
                            /\ UNCHANGED <<entries, currentLinuxEntry>>
                       ELSE /\ entries' = IF firstLine THEN entries
                                          ELSE Append(entries, r.val)
                            /\ IF \/ ~stoull(m.g1).ok \/ ~stoull(m.g2).ok
                                  \/ ~stoull(m.g4).ok
                               THEN /\ pc' = "failed" /\ error' = MsgStoull
                                    /\ UNCHANGED currentLinuxEntry
                               ELSE /\ currentLinuxEntry' =
                                           HeaderFields(currentLinuxEntry, m)
                                    /\ UNCHANGED <<pc, error>>
               ELSE /\ UNCHANGED <<firstLine, classified, entries>>
                    /\ IF splitIndex = 0
                       THEN UNCHANGED <<pc, error, currentLinuxEntry>>
                       ELSE IF valueIndex > Len(line)
                       THEN /\ pc' = "failed" /\ error' = MsgSubstr
                            /\ UNCHANGED currentLinuxEntry
                       ELSE /\ currentLinuxEntry' =
                                 [currentLinuxEntry EXCEPT !.tags =
                                     SetTag(@, SubSeq(line, 1, splitIndex - 1),
                                            From(line, valueIndex))]
                            /\ UNCHANGED <<pc, error>>
    /\ UNCHANGED <<errno, smapsOpen, mapsOpen, source, size, parsed, regions,
                   mallocZones, argVars, printVars>>

\* End of file (the last getline returns an empty line, which is neither a
\* header nor a detail line), then lines 151-183.
MapReturn ==
    /\ pc = "loop"
    /\ entries' = SecondPass(entries)
    /\ pc' = "done"
    /\ UNCHANGED <<mapVars, size, parsed, regions, mallocZones, argVars,
                   printVars>>

Next == MapOpen \/ MapLine \/ MapReturn

Spec == Init /\ [][Next]_vars

(***************************************************************************)
(* ParseSize on its own: one call on one argument.                         *)
(***************************************************************************)
Units == {"kB", "MB", "xB", "KB", "kb", "B", "kBs", ""}

\* "<n> <unit>" for the numbers and units of the model, the number alone,
\* and the other spacings a value can have.  A GB count above 1 does not fit
\* the model's integers.
SizeStrings ==
    {to_string(n) \o " " \o unit : n \in 0..MaxNum, unit \in Units}
        \cup {to_string(n) : n \in 0..MaxNum}
        \cup {"0 GB", "1 GB", "4kB", "  4 kB", "4 \tMB", "+4 kB", "kB", "",
              "4 kB extra", "x4 kB"}

NotCalled == [ok |-> FALSE, val |-> 0, what |-> "not called"]

InitSize ==
    /\ pc = "ParseSize"
    /\ size \in SizeStrings
    /\ parsed = NotCalled
    /\ errno = "unread" /\ smapsOpen = "untried" /\ mapsOpen = "untried"
    /\ source = "none" /\ input = <<>> /\ firstLine = TRUE
    /\ currentLinuxEntry = NewLinuxEntry
    /\ entries = <<>> /\ classified = <<>> /\ error = NoError
    /\ regions = <<>> /\ mallocZones = <<>>
    /\ IdleArgs /\ IdlePrint

CallParseSize ==
    /\ pc = "ParseSize"
    /\ parsed' = ParseSize(size)
    /\ pc' = "parsed"
    /\ UNCHANGED <<mapVars, entries, size, regions, mallocZones, argVars,
                   printVars>>

NextSize == CallParseSize

SpecSize == InitSize /\ [][NextSize]_vars

(***************************************************************************)
(* LinuxToVmmap on its own: one call on one record.                        *)
(***************************************************************************)
\* The thread ids of the model; the last is the largest id the kernel gives.
ThreadIds == 0..MaxNum \cup {100, 4194303}

ThreadStack(n) == "[stack:" \o to_string(n) \o "]"

Descriptions ==
    {ThreadStack(n) : n \in ThreadIds}
        \cup {"[stack]", "[stack:007]", "[stack:]", "[stack", "[heap]", "HEAP",
              "/bin/true", ""}

\* Values of the VmFlags attribute, as the kernel writes them (with a space
\* after every flag) and otherwise.
FlagStrings ==
    {"rd wr mr mw me ac sd ", "rd ex mr me sd ", "rd mr", "mw", "me mw",
     "mr  me", "mrx mw", "xmr", "rd wr ex", " ", ""}

Records ==
    {[NewLinuxEntry EXCEPT !.start = 4096, !.end = 8192, !.permissions = p,
                           !.description = d, !.tags = t] :
        p \in {"rw-p", ""},
        d \in Descriptions,
        t \in {NoTags} \cup {SetTag(NoTags, "VmFlags", f) : f \in FlagStrings}}

InitClassify ==
    /\ pc = "LinuxToVmmap"
    /\ currentLinuxEntry \in Records
    /\ errno = "unread" /\ smapsOpen = "untried" /\ mapsOpen = "untried"
    /\ source = "none" /\ input = <<>> /\ firstLine = TRUE
    /\ entries = <<>> /\ classified = <<>> /\ error = NoError
    /\ Idle /\ IdleArgs /\ IdlePrint

CallLinuxToVmmap ==
    /\ pc = "LinuxToVmmap"
    /\ classified' = <<currentLinuxEntry>>
    /\ LET r == LinuxToVmmap(currentLinuxEntry)
       IN  IF r.ok
           THEN pc' = "classified" /\ entries' = <<r.val>> /\ error' = error
           ELSE pc' = "failed" /\ entries' = entries /\ error' = r.what
    /\ UNCHANGED <<errno, smapsOpen, mapsOpen, source, input, firstLine,
                   currentLinuxEntry, size, parsed, regions, mallocZones,
                   argVars, printVars>>

NextClassify == CallLinuxToVmmap

SpecClassify == InitClassify /\ [][NextClassify]_vars

(***************************************************************************)
(* print.cpp: the summary tables.                                          *)
(***************************************************************************)
\* VmmapEntry::IsMalloc and VmmapSummaryEntry::IsMalloc:
\* strncmp(regionType.c_str(), "MALLOC", 6) == 0
IsMalloc(entry) ==
    /\ Len(entry.regionType) >= 6
    /\ SubSeq(entry.regionType, 1, 6) = "MALLOC"

\* A value-initialised VmmapSummaryEntry, as unordered_map::operator[] makes
NewSummaryEntry ==
    [regionType |-> "", vsize |-> 0, rss |-> 0, dirty |-> 0, swap |-> 0,
     vol |-> 0, nonvol |-> 0, empty |-> 0, regionCount |-> 0]

NoBuckets == [key \in {} |-> NewSummaryEntry]

Bucket(map, key) == IF key \in DOMAIN map THEN map[key] ELSE NewSummaryEntry

Put(map, key, value) ==
    [k \in DOMAIN map \cup {key} |-> IF k = key THEN value ELSE map[k]]

\* PrintSummary, lines 499-520, with the nonvolatile sizes added to vol
AddRegionPurgeMixed(map, entry) ==
    LET currentRegion == Bucket(map, entry.regionType)
    IN  Put(map, entry.regionType,
            [regionType |-> entry.regionType,
             vsize |-> currentRegion.vsize + entry.vsize,
             rss |-> currentRegion.rss + entry.rss,
             dirty |-> currentRegion.dirty + entry.dirty,
             swap |-> currentRegion.swap + entry.swap,
             vol |-> currentRegion.vol
                        + (IF entry.purge \in {"V", "N"} THEN entry.vsize ELSE 0),
             nonvol |-> currentRegion.nonvol
                        + (IF entry.purge = "N" THEN entry.vsize ELSE 0),
             empty |-> currentRegion.empty
                        + (IF entry.purge = "E" THEN entry.vsize ELSE 0),
             regionCount |-> currentRegion.regionCount + 1])

\* PrintSummary, lines 499-520: one turn of the loop over entries
AddRegion(map, entry) ==
    LET currentRegion == Bucket(map, entry.regionType)
    IN  Put(map, entry.regionType,
            [regionType |-> entry.regionType,
             vsize |-> currentRegion.vsize + entry.vsize,
             rss |-> currentRegion.rss + entry.rss,
             dirty |-> currentRegion.dirty + entry.dirty,
             swap |-> currentRegion.swap + entry.swap,
             vol |-> currentRegion.vol
                        + (IF entry.purge = "V" THEN entry.vsize ELSE 0),
             nonvol |-> currentRegion.nonvol
                        + (IF entry.purge = "N" THEN entry.vsize ELSE 0),
             empty |-> currentRegion.empty
                        + (IF entry.purge = "E" THEN entry.vsize ELSE 0),
             regionCount |-> currentRegion.regionCount + 1])

\* PrintSummary, lines 495-521: the loop
RECURSIVE Regions(_)
Regions(es) ==
    IF es = <<>> THEN NoBuckets
    ELSE AddRegion(Regions(SubSeq(es, 1, Len(es) - 1)), es[Len(es)])

\* PrintMalloc, lines 611-621, without the IsMalloc test
AddZoneUnfiltered(map, entry) ==
    LET summaryEntry == Bucket(map, entry.regionDetail)
    IN  Put(map, entry.regionDetail,
            [summaryEntry EXCEPT
                !.regionType = entry.regionDetail,
                !.vsize = @ + entry.vsize,
                !.rss = @ + entry.rss,
                !.dirty = @ + entry.dirty,
                !.swap = @ + entry.swap,
                !.regionCount = @ + 1])

\* PrintMalloc, lines 611-621: one turn of the loop over entries
AddZone(map, entry) ==
    LET summaryEntry == Bucket(map, entry.regionDetail)
    IN  IF IsMalloc(entry)
        THEN Put(map, entry.regionDetail,
                 [summaryEntry EXCEPT
                     !.regionType = entry.regionDetail,
                     !.vsize = @ + entry.vsize,
                     !.rss = @ + entry.rss,
                     !.dirty = @ + entry.dirty,
                     !.swap = @ + entry.swap,
                     !.regionCount = @ + 1])
        ELSE map

\* PrintMalloc, lines 607-622: the loop
RECURSIVE Zones(_)
Zones(es) ==
    IF es = <<>> THEN NoBuckets
    ELSE AddZone(Zones(SubSeq(es, 1, Len(es) - 1)), es[Len(es)])

\* The entry lists Print is given in the model of the tables on their own.
Entry(regionType, regionDetail, prt, purge, vsize, rss, dirty, swap) ==
    [regionType |-> regionType, startAddress |-> 4096,
     endAddress |-> 4096 + vsize, vsize |-> vsize, rss |-> rss,
     dirty |-> dirty, swap |-> swap, pageSize |-> HostPageSize, prt |-> prt,
     max |-> "rwx", shrmod |-> "NUL", purge |-> purge,
     regionDetail |-> regionDetail]

SummaryEntries ==
    {Entry("MALLOC", "DefaultMallocZone", "rw-", "", 100, 60, 20, 4),
     Entry("MALLOC", "DefaultMallocZone", "rw-", "V", 200, 80, 30, 8),
     Entry("MALLOC_TINY", "DefaultMallocZone", "rw-", "N", 300, 90, 10, 0),
     Entry("MALLOC", "HEAP", "rw-", "E", 400, 50, 40, 16),
     Entry("MALLO", "DefaultMallocZone", "rw-", "", 500, 70, 5, 1),
     Entry("VM_ALLOCATE", "DefaultMallocZone", "rw-", "X", 600, 30, 2, 32),
     Entry("VM_ALLOCATE", "", "r--", "E", 700, 0, 0, 0),
     Entry("__TEXT", "/Volumes/SystemRoot/bin/true", "r-x", "", 800, 800, 0, 0),
     Entry("__DATA", "/Volumes/SystemRoot/bin/true", "rw-", "N", 900, 10, 10, 64),
     Entry("Stack", "thread 7", "rw-", "V", 1000, 20, 20, 128),
     Entry("mapped file", "/Volumes/SystemRoot/lib/ld.so", "r--", "", 1100, 1, 0, 2),
     Entry("__TEXT", "/Volumes/SystemRoot/bin/true", "w-x", "", 1200, 3, 0, 0)}

RECURSIVE Lists(_, _)
Lists(S, n) ==
    IF n = 0 THEN {<<>>}
    ELSE Lists(S, n - 1)
             \cup {Append(l, e) : l \in {k \in Lists(S, n - 1) : Len(k) = n - 1},
                                  e \in S}

\* The VmmapArgs Print is given in the model of print.cpp on its own
PrintArgs ==
    {[NewVmmapArgs EXCEPT !.pid = 1, !.summary = a[1], !.interleaved = a[2],
                          !.forkCorpse = a[3]] :
        a \in {<<FALSE, FALSE, FALSE>>, <<TRUE, FALSE, FALSE>>,
               <<FALSE, TRUE, FALSE>>, <<FALSE, FALSE, TRUE>>}}

InitPrint ==
    /\ pc = "Print"
    /\ entries \in Lists(SummaryEntries, MaxEntries)
    /\ args \in PrintArgs
    /\ argv = <<>>
    /\ IdlePrint
    /\ regions = <<>> /\ mallocZones = <<>>
    /\ errno = "unread" /\ smapsOpen = "untried" /\ mapsOpen = "untried"
    /\ source = "none" /\ input = <<>> /\ firstLine = TRUE
    /\ currentLinuxEntry = NewLinuxEntry
    /\ classified = <<>> /\ error = NoError
    /\ size = "" /\ parsed = Ok(0)

\* what() of the exception of line 83
MsgForkCorpse == "vmmap: -forkCorpse not implemented"

\* What a read of the first entry's pageSize can yield (lines 92, 523, 624):
\* on an empty list begin() is end() and front() has no element, so the
\* read is of no entry and its value is indeterminate.
Indeterminate == {0, HostPageSize}

FirstPageSize(es) ==
    IF es = <<>> THEN Indeterminate ELSE {es[1].pageSize}

\* Print, line 102: entry.prt.find("w") != std::string::npos
FoundWritable(entry) == Find(entry.prt, "w", 1) # 0

\* Print, lines 97-110: the two lists
Partition(es) ==
    [nonWritable |-> SelectSeq(es, LAMBDA entry : ~FoundWritable(entry)),
     writable |-> SelectSeq(es, FoundWritable)]

\* Print, lines 79-136, up to its call of PrintSummary.  Called on Map's
\* result, or on a list of its own.
PrintRegions ==
    /\ pc \in {"done", "Print"}
    /\ IF args.forkCorpse
       THEN /\ pc' = "failed" /\ error' = MsgForkCorpse
            /\ UNCHANGED <<lists, pageSize>>
       ELSE /\ pc' = "PrintSummary" /\ error' = error
            /\ IF args.summary
               THEN UNCHANGED <<lists, pageSize>>
               ELSE /\ \E read \in FirstPageSize(entries) :
                          pageSize' = Append(pageSize, read)
                    /\ lists' = IF args.interleaved THEN lists
                                ELSE Partition(entries)
    /\ UNCHANGED <<errno, smapsOpen, mapsOpen, source, input, firstLine,
                   currentLinuxEntry, classified, entries, size, parsed,
                   regions, mallocZones, argVars, totals, percents>>

\* PrintSummary, lines 414-428: one turn of the loop over entries
AddTotals(t, entry) ==
    IF At(entry.prt, WRITE_INDEX) = "w"
    THEN [t EXCEPT !.writeTotal = @ + entry.vsize,
                   !.writeRss = @ + entry.rss,
                   !.writeSwap = @ + entry.swap]
    ELSE IF entry.regionType = "__TEXT"
    THEN [t EXCEPT !.readOnlyTotal = @ + entry.vsize,
                   !.readOnlyRss = @ + entry.rss]
    ELSE t

\* PrintSummary, lines 405-428: the totals
RECURSIVE Totals(_)
Totals(es) ==
    IF es = <<>> THEN NewTotals
    ELSE AddTotals(Totals(SubSeq(es, 1, Len(es) - 1)), es[Len(es)])

\* std::round of the quotient n / d, d > 0: halves go away from zero
Round(n, d) ==
    IF n >= 0 THEN (2 * n + d) \div (2 * d)
    ELSE 0 - ((2 * (0 - n) + d) \div (2 * d))

\* The conversions of a long double that no int holds.  The value is
\* undefined; it is what the conversion instruction of the build leaves:
\* the smallest int whatever the operand, or 0 for a NaN and the nearest
\* int for an infinity.
Builds == {"indefinite", "saturating"}

Undefined(build, t1) ==
    IF build = "indefinite" \/ t1 < 0 THEN "-2147483648"
    ELSE IF t1 = 0 THEN "0"
    ELSE "2147483647"

\* Percent, lines 326-330.  A zero t2 makes the quotient a NaN (t1 zero) or
\* an infinity, which std::round returns unchanged and (int) cannot hold.
Percent(build, t1, t2) ==
    IF t2 = 0 THEN Undefined(build, t1) \o "%"
    ELSE to_string(IF t2 > 0 THEN Round(100 * t1, t2)
                   ELSE Round(0 - 100 * t1, 0 - t2)) \o "%"

Call(build, t1, t2) ==
    [t1 |-> t1, t2 |-> t2, result |-> Percent(build, t1, t2)]

\* PrintSummary, lines 431-443: the six calls of Percent
Percents(build, t) ==
    <<Call(build, t.readOnlyRss, t.readOnlyTotal),
      Call(build, t.readOnlyTotal - t.readOnlyRss, t.readOnlyTotal),
      Call(build, t.writeSwap, t.writeTotal),
      Call(build, t.writeRss, t.writeTotal),
      Call(build, t.writeSwap, t.writeTotal),
      Call(build, t.writeTotal - t.writeRss - t.writeSwap, t.writeTotal)>>

\* PrintSummary, lines 402-548, up to its call of PrintMalloc
PrintSummary ==
    /\ pc = "PrintSummary"
    /\ totals' = Totals(entries)
    /\ \E build \in Builds : percents' = Percents(build, Totals(entries))
    /\ regions' = Regions(entries)
    /\ \E read \in FirstPageSize(entries) : pageSize' = Append(pageSize, read)
    /\ pc' = "PrintMalloc"
    /\ UNCHANGED <<mapVars, entries, size, parsed, mallocZones, argVars,
                   lists>>

\* PrintMalloc (called at line 549), lines 552-642
PrintMalloc ==
    /\ pc = "PrintMalloc"
    /\ mallocZones' = Zones(entries)
    /\ \E read \in FirstPageSize(entries) : pageSize' = Append(pageSize, read)
    /\ pc' = "printed"
    /\ UNCHANGED <<mapVars, entries, size, parsed, regions, argVars, lists,
                   totals, percents>>

NextPrint == PrintRegions \/ PrintSummary \/ PrintMalloc

SpecPrint == InitPrint /\ [][NextPrint]_vars

(***************************************************************************)
(* One request, vmmap <pid> with no option: Map, then Print on the list    *)
(* Map returned.                                                           *)
(***************************************************************************)
InitMain ==
    /\ pc = "Map"
    /\ argv = <<"1">> /\ args = [NewVmmapArgs EXCEPT !.pid = 1]
    /\ errno = "unread" /\ smapsOpen = "untried" /\ mapsOpen = "untried"
    /\ source = "none" /\ input = <<>> /\ firstLine = TRUE
    /\ currentLinuxEntry = NewLinuxEntry
    /\ entries = <<>> /\ classified = <<>> /\ error = NoError
    /\ Idle /\ IdlePrint

NextMain ==
    \/ MapOpen \/ MapLine \/ MapReturn
    \/ PrintRegions \/ PrintSummary \/ PrintMalloc

SpecMain == InitMain /\ [][NextMain]_vars

(***************************************************************************)
(* ParseArgs (lines 388-467): one call on one argument vector.             *)
(***************************************************************************)
\* what() of the exceptions of lines 451, 459 and 463
MsgOnlyPid == "[invalid usage]: Only PID is supported at the moment."

MsgUnrecognized(arg) == "[invalid usage]: unrecognized option '" \o arg \o "'"

MsgNoProcess == "[invalid usage]: no process specified"

\* Lines 393-460: the loop body on one argument.  arg[0] of the empty
\* string is its null character, which is not '-'.
ParseArg(vmmapArgs, arg) ==
    IF arg \in {"-w", "-wide"}
    THEN Ok([vmmapArgs EXCEPT !.wide = TRUE])
    ELSE IF arg \in {"-v", "-verbose"}
    THEN Ok([vmmapArgs EXCEPT !.wide = TRUE, !.submap = TRUE,
                              !.allSplitLibs = TRUE, !.noCoalesce = TRUE])
    ELSE IF arg = "-pages"
    THEN Ok([vmmapArgs EXCEPT !.pages = TRUE])
    ELSE IF arg = "-interleaved"
    THEN Ok([vmmapArgs EXCEPT !.interleaved = TRUE])
    ELSE IF arg = "-submap"
    THEN Ok([vmmapArgs EXCEPT !.submap = TRUE])
    ELSE IF arg = "allSplitLibs"
    THEN Ok([vmmapArgs EXCEPT !.allSplitLibs = TRUE])
    ELSE IF arg = "-summary"
    THEN Ok([vmmapArgs EXCEPT !.summary = TRUE])
    ELSE IF arg = "-stacks"
    THEN Ok([vmmapArgs EXCEPT !.stacks = TRUE, !.interleaved = TRUE,
                              !.noCoalesce = TRUE])
    ELSE IF arg = "-fullStacks"
    THEN Ok([vmmapArgs EXCEPT !.fullStacks = TRUE, !.stacks = TRUE,
                              !.interleaved = TRUE, !.noCoalesce = TRUE])
    ELSE IF arg = "-forkCorpse"
    THEN Ok([vmmapArgs EXCEPT !.forkCorpse = TRUE])
    ELSE IF arg = "" \/ Ch(arg, 1) # "-"
    THEN IF \E i \in 1..Len(arg) : Ch(arg, i) \notin Digits
         THEN Throw(MsgOnlyPid)
         ELSE IF stoi(arg).ok
         THEN Ok([vmmapArgs EXCEPT !.pid = stoi(arg).val])
         ELSE Throw(stoi(arg).what)
    ELSE Throw(MsgUnrecognized(arg))

\* Lines 391-460: the loop, from argument i on
RECURSIVE ParseFrom(_, _, _)
ParseFrom(vmmapArgs, arguments, i) ==
    IF i > Len(arguments) THEN Ok(vmmapArgs)
    ELSE LET r == ParseArg(vmmapArgs, arguments[i])
         IN  IF r.ok THEN ParseFrom(r.val, arguments, i + 1) ELSE r

\* Lines 388-467
ParseArgs(arguments) ==
    LET r == ParseFrom(NewVmmapArgs, arguments, 1)
    IN  IF ~r.ok THEN r
        ELSE IF r.val.pid = -1 THEN Throw(MsgNoProcess)
        ELSE r

\* The options PrintHelp lists (print.cpp lines 66-76)
HelpOptions ==
    {"-w", "-wide", "-v", "-verbose", "-pages", "-interleaved", "-submap",
     "-allSplitLibs", "-noCoalesce", "-summary", "-stacks", "-fullStacks",
     "-forkCorpse"}

\* The arguments of the model: the listed options, process ids, and words
\* that are neither.
Arguments ==
    HelpOptions \cup {"123", "7", "12a", "", "allSplitLibs", "-bogus"}

InitArgs ==
    /\ pc = "ParseArgs"
    /\ argv \in Lists(Arguments, MaxArgs)
    /\ args = NewVmmapArgs
    /\ errno = "unread" /\ smapsOpen = "untried" /\ mapsOpen = "untried"
    /\ source = "none" /\ input = <<>> /\ firstLine = TRUE
    /\ currentLinuxEntry = NewLinuxEntry
    /\ entries = <<>> /\ classified = <<>> /\ error = NoError
    /\ Idle /\ IdlePrint

CallParseArgs ==
    /\ pc = "ParseArgs"
    /\ LET r == ParseArgs(argv)
       IN  IF r.ok
           THEN pc' = "main" /\ args' = r.val /\ error' = error
           ELSE pc' = "failed" /\ args' = args /\ error' = r.what
    /\ UNCHANGED <<errno, smapsOpen, mapsOpen, source, input, firstLine,
                   currentLinuxEntry, classified, entries, size, parsed,
                   regions, mallocZones, argv, printVars>>

NextArgs == CallParseArgs

SpecArgs == InitArgs /\ [][NextArgs]_vars

(***************************************************************************)
(* What the input says, read off the lines themselves: the header lines,   *)
(* the records they open and the detail lines each record owns.            *)
(***************************************************************************)
IsHeader(line) == regex_match(line).ok

HeaderCount == Cardinality({i \in 1..Len(input) : IsHeader(input[i])})

\* The position in input of the k-th header line
HeaderPos(k) ==
    CHOOSE i \in 1..Len(input) :
        /\ IsHeader(input[i])
        /\ Cardinality({j \in 1..i : IsHeader(input[j])}) = k

\* The position of the last line of the k-th record
RecordEnd(k) == IF k < HeaderCount THEN HeaderPos(k + 1) - 1 ELSE Len(input)

\* A detail line <label>:<whitespace><value>
IsDetail(line) ==
    /\ ~IsHeader(line)
    /\ Find(line, ":", 1) # 0
    /\ Skip(line, Find(line, ":", 1) + 1, Space) <= Len(line)

Label(line) == SubSeq(line, 1, Find(line, ":", 1) - 1)

Value(line) == From(line, Skip(line, Find(line, ":", 1) + 1, Space))

\* The attribute map of the detail lines at positions lo..hi, a later line
\* of the same label replacing an earlier one
RECURSIVE AttributesIn(_, _)
AttributesIn(lo, hi) ==
    IF hi < lo THEN [label \in {} |-> ""]
    ELSE LET before == AttributesIn(lo, hi - 1)
         IN  IF IsDetail(input[hi])
             THEN [label \in DOMAIN before \cup {Label(input[hi])} |->
                      IF label = Label(input[hi]) THEN Value(input[hi])
                      ELSE before[label]]
             ELSE before

\* The attribute map of the k-th record
OwnAttributes(k) == AttributesIn(HeaderPos(k) + 1, RecordEnd(k))

\* An input of n >= 1 header lines, each followed by zero or more detail lines
ValidDetailedInput ==
    /\ Len(input) >= 1
    /\ IsHeader(input[1])
    /\ \A i \in 1..Len(input) : IsHeader(input[i]) \/ IsDetail(input[i])

(***************************************************************************)
(* C1.  For every input of n >= 1 header lines, each followed by zero or   *)
(* more detail lines, Map returns exactly n entries: the record the last   *)
(* header line opened is emitted at end of input.                          *)
(***************************************************************************)
C1_OneEntryPerHeader ==
    (pc = "done" /\ ValidDetailedInput) => Len(entries) = HeaderCount

(***************************************************************************)
(* C2.  The attribute map a record is classified with holds exactly the    *)
(* label/value pairs of the detail lines between the record's own header   *)
(* line and the next header line (or the end of input): a detail line      *)
(* before the first header is ignored and no attribute of an earlier       *)
(* record is visible.                                                      *)
(***************************************************************************)
C2_OwnAttributesOnly ==
    \A k \in 1..Len(classified) : classified[k].tags = OwnAttributes(k)

(***************************************************************************)
(* C3.  In the list Map returns, an entry the first pass labelled "mapped  *)
(* file" is "__TEXT" iff its execute slot is 'x', "__DATA" iff its execute *)
(* slot is not 'x' and some entry of the list with the same backing path   *)
(* is executable, and "mapped file" iff no entry of the list with the same *)
(* backing path is executable; an entry of any other first-pass type keeps *)
(* its type.                                                               *)
(***************************************************************************)
\* The execute slot of the k-th record's permission field
ExecuteSlot(k) == Ch(classified[k].permissions, 3)

\* Some returned entry with the backing path of the k-th is executable
PathSeenExecutable(k) ==
    \E j \in 1..Len(entries) :
        /\ classified[j].description = classified[k].description
        /\ ExecuteSlot(j) = "x"

C3_SecondPass ==
    pc = "done" =>
        \A k \in 1..Len(entries) :
            LET first == LinuxToVmmap(classified[k]).val.regionType
                type == entries[k].regionType
            IN  IF first = "mapped file"
                THEN /\ type \in {"__TEXT", "__DATA", "mapped file"}
                     /\ type = "__TEXT" <=> ExecuteSlot(k) = "x"
                     /\ type = "__DATA" <=>
                            (ExecuteSlot(k) # "x" /\ PathSeenExecutable(k))
                     /\ type = "mapped file" <=> ~PathSeenExecutable(k)
                ELSE type = first

\* A returned list that holds a "__TEXT", a "__DATA" and a "mapped file" entry
C3_Witness ==
    /\ pc = "done"
    /\ \E i, j, k \in 1..Len(entries) :
        /\ entries[i].regionType = "__TEXT"
        /\ entries[j].regionType = "__DATA"
        /\ entries[k].regionType = "mapped file"

(***************************************************************************)
(* Sums over the entries at a set of positions.                            *)
(***************************************************************************)
RECURSIVE SumOf(_, _)
SumOf(field, positions) ==
    IF positions = {} THEN 0
    ELSE LET i == CHOOSE i \in positions : TRUE
         IN  entries[i][field] + SumOf(field, positions \ {i})

\* The positions of the entries of a region type, and those of them in a
\* purge state
OfType(type) == {i \in 1..Len(entries) : entries[i].regionType = type}

Purged(type, state) == {i \in OfType(type) : entries[i].purge = state}

(***************************************************************************)
(* C4.  After the region-type aggregation of PrintSummary there is one     *)
(* bucket per regionType that occurs and no other; each bucket's vsize,    *)
(* rss, dirty and swap are the sums over exactly the entries of that type, *)
(* regionCount is their number, and vol / nonvol / empty are the sums of   *)
(* vsize over those of them whose purge state is "V" / "N" / "E".          *)
(***************************************************************************)
C4_RegionBuckets ==
    pc \in {"PrintMalloc", "printed"} =>
        /\ DOMAIN regions = {entries[i].regionType : i \in 1..Len(entries)}
        /\ \A type \in DOMAIN regions :
            /\ regions[type].vsize = SumOf("vsize", OfType(type))
            /\ regions[type].rss = SumOf("rss", OfType(type))
            /\ regions[type].dirty = SumOf("dirty", OfType(type))
            /\ regions[type].swap = SumOf("swap", OfType(type))
            /\ regions[type].regionCount = Cardinality(OfType(type))
            /\ regions[type].vol = SumOf("vsize", Purged(type, "V"))
            /\ regions[type].nonvol = SumOf("vsize", Purged(type, "N"))
            /\ regions[type].empty = SumOf("vsize", Purged(type, "E"))

\* The bucket of two VM_ALLOCATE entries of sizes 600 and 700, the first in a
\* purge state that is none of V, N, E and the second empty
C4_Witness ==
    /\ pc = "PrintMalloc"
    /\ "VM_ALLOCATE" \in DOMAIN regions
    /\ regions["VM_ALLOCATE"].regionCount = 2
    /\ regions["VM_ALLOCATE"].vsize = 1300
    /\ regions["VM_ALLOCATE"].empty = 700
    /\ regions["VM_ALLOCATE"].vol = 0
    /\ regions["VM_ALLOCATE"].nonvol = 0

(***************************************************************************)
(* C5.  The zone aggregation of PrintMalloc folds exactly the entries      *)
(* whose regionType starts with "MALLOC", keyed by their detail: each zone *)
(* bucket's vsize, rss, dirty, swap and regionCount are the sums / the     *)
(* number over exactly the allocator entries of that detail, and no other  *)
(* entry adds to any zone bucket.                                          *)
(***************************************************************************)
StartsWith(str, prefix) ==
    /\ Len(str) >= Len(prefix)
    /\ prefix \o From(str, Len(prefix) + 1) = str

\* The positions of the allocator entries of a zone
InZone(zone) ==
    {i \in 1..Len(entries) : /\ StartsWith(entries[i].regionType, "MALLOC")
                             /\ entries[i].regionDetail = zone}

C5_ZoneBuckets ==
    pc = "printed" =>
        /\ DOMAIN mallocZones =
               {entries[i].regionDetail :
                   i \in {j \in 1..Len(entries) :
                             StartsWith(entries[j].regionType, "MALLOC")}}
        /\ \A zone \in DOMAIN mallocZones :
            /\ mallocZones[zone].vsize = SumOf("vsize", InZone(zone))
            /\ mallocZones[zone].rss = SumOf("rss", InZone(zone))
            /\ mallocZones[zone].dirty = SumOf("dirty", InZone(zone))
            /\ mallocZones[zone].swap = SumOf("swap", InZone(zone))
            /\ mallocZones[zone].regionCount = Cardinality(InZone(zone))

\* Two MALLOC entries of zone DefaultMallocZone with sizes 100 and 200, and
\* an entry of that detail that is no allocator region: vsize 300, count 2
C5_Witness ==
    /\ pc = "printed"
    /\ Len(entries) = 3
    /\ \E i, j, k \in 1..3 :
        /\ entries[i].regionType = "MALLOC" /\ entries[i].vsize = 100
        /\ entries[j].regionType = "MALLOC" /\ entries[j].vsize = 200
        /\ entries[k].regionType = "VM_ALLOCATE"
        /\ \A n \in {i, j, k} : entries[n].regionDetail = "DefaultMallocZone"
    /\ mallocZones["DefaultMallocZone"].vsize = 300
    /\ mallocZones["DefaultMallocZone"].regionCount = 2

(***************************************************************************)
(* C6.  For every record LinuxToVmmap classifies: vsize is the parsed      *)
(* "Size" attribute if present, else end - start; rss is the parsed "Rss"  *)
(* attribute if present, else vsize; dirty is the sum of the parsed        *)
(* "Shared_Dirty" and "Private_Dirty" attributes, an absent one counting   *)
(* 0; swap is the parsed "Swap" attribute if present, else 0.              *)
(***************************************************************************)
\* The parsed attribute of the k-th classified record, or the default
Attribute(k, name, default) ==
    IF name \in DOMAIN classified[k].tags
    THEN ParseSize(classified[k].tags[name]).val
    ELSE default

C6_SizeResolution ==
    \A k \in 1..Len(entries) :
        /\ entries[k].vsize =
               Attribute(k, "Size", classified[k].end - classified[k].start)
        /\ entries[k].rss = Attribute(k, "Rss", entries[k].vsize)
        /\ entries[k].dirty = Attribute(k, "Shared_Dirty", 0)
                                  + Attribute(k, "Private_Dirty", 0)
        /\ entries[k].swap = Attribute(k, "Swap", 0)

\* An entry of a record with a Size other than its address range, one of the
\* two dirty attributes and neither Rss nor Swap
C6_Witness ==
    \E k \in 1..Len(entries) :
        /\ DOMAIN classified[k].tags = {"Size", "Private_Dirty"}
        /\ classified[k].end - classified[k].start = 8192
        /\ entries[k].vsize = 4096
        /\ entries[k].rss = 4096
        /\ entries[k].dirty = 8192
        /\ entries[k].swap = 0

(***************************************************************************)
(* C7.  ParseSize of "<n> <unit>" returns n*1024 for kB, n*1024^2 for MB   *)
(* and n*1024^3 for GB, for every n of the model, and fails with the       *)
(* malformed-size error for every other unit and for a missing unit.       *)
(***************************************************************************)
C7_ParseSizeUnits ==
    pc = "parsed" =>
        \A n \in 0..MaxNum :
            /\ \A unit \in Units \cup {"GB"} :
                size = to_string(n) \o " " \o unit =>
                    parsed = CASE unit = "kB" -> Ok(n * 1024)
                               [] unit = "MB" -> Ok(n * 1024 * 1024)
                               [] unit = "GB" -> Ok(n * 1024 * 1024 * 1024)
                               [] OTHER -> Throw(MsgParseSize)
            /\ size = to_string(n) => parsed = Throw(MsgParseSize)

\* "1 MB" parsed as 1048576
C7_Witness ==
    /\ pc = "parsed"
    /\ size = "1 MB"
    /\ parsed.ok
    /\ parsed.val = 1048576

(***************************************************************************)
(* C8.  If any record of the input, the first, a middle one or the last,   *)
(* carries a Size, Rss, Shared_Dirty, Private_Dirty, Swap or               *)
(* KernelPageSize attribute whose unit is none of kB / MB / GB, the Map    *)
(* request fails and no entry list is returned.                            *)
(***************************************************************************)
CarriesBadUnit(k) ==
    \E name \in SizeTags \cap DOMAIN OwnAttributes(k) :
        ~ParseSize(OwnAttributes(k)[name]).ok

C8_BadUnitFailsRequest ==
    pc = "done" => \A k \in 1..HeaderCount : ~CarriesBadUnit(k)

(***************************************************************************)
(* C9.  Map reports the two causes of failure distinctly: a target that    *)
(* does not exist, or neither source opening, fails with the               *)
(* target-unavailable error ("no longer appears to be running"); a         *)
(* permission failure reported by the host fails with the                  *)
(* insufficient-privilege error.                                           *)
(***************************************************************************)
C9_DistinctCauses ==
    pc = "failed" =>
        /\ errno = "ESRCH" => error = MsgNotRunning
        /\ (smapsOpen = "no" /\ mapsOpen = "no") => error = MsgNotRunning
        /\ errno = "EPERM" => error = MsgNoPrivileges

(***************************************************************************)
(* C10.  First-pass classification is total and follows the priority       *)
(* order: "mapped file" if the description contains '/', else "MALLOC" if  *)
(* it is the heap marker, else "Stack" if it is "[stack]" or "[stack:N]"   *)
(* with a numeric N, else "VM_ALLOCATE"; every description, also one that  *)
(* starts with "[stack:" and has no numeric id, gets one of these labels.  *)
(***************************************************************************)
\* "[stack:N]" with a numeric N
IsThreadStack(d) ==
    /\ StartsWith(d, "[stack:")
    /\ Len(d) >= 9
    /\ Ch(d, Len(d)) = "]"
    /\ \A i \in 8..(Len(d) - 1) : Ch(d, i) \in Digits

ExpectedType(d) ==
    IF \E i \in 1..Len(d) : Ch(d, i) = "/" THEN "mapped file"
    ELSE IF d = "HEAP" THEN "MALLOC"
    ELSE IF d = "[stack]" \/ IsThreadStack(d) THEN "Stack"
    ELSE "VM_ALLOCATE"

C10_FirstPassTotal ==
    /\ error # MsgStoi
    /\ \A k \in 1..Len(classified) :
        /\ Region(classified[k]).ok
        /\ Region(classified[k]).val.regionType
               = ExpectedType(classified[k].description)

(***************************************************************************)
(* C11: for every thread id N >= 0, a record whose description is          *)
(* "[stack:N]" is classified "Stack" with the detail "thread N", the id    *)
(* written in decimal; the detail of a record described "[stack]" stays    *)
(* the description.                                                        *)
(***************************************************************************)
C11_ThreadStackDetail ==
    pc \in {"classified", "failed"} =>
        LET d == currentLinuxEntry.description
        IN  /\ \A n \in ThreadIds :
                d = ThreadStack(n) =>
                    /\ pc = "classified"
                    /\ entries[1].regionType = "Stack"
                    /\ entries[1].regionDetail = "thread " \o to_string(n)
            /\ d = "[stack:007]" =>
                    /\ pc = "classified"
                    /\ entries[1].regionType = "Stack"
                    /\ entries[1].regionDetail = "thread 7"
            /\ d = "[stack]" =>
                    /\ pc = "classified"
                    /\ entries[1].regionDetail = "[stack]"

C11_Witness ==
    /\ pc = "classified"
    /\ currentLinuxEntry.description = "[stack:4194303]"
    /\ entries[1].regionType = "Stack"
    /\ entries[1].regionDetail = "thread 4194303"

(***************************************************************************)
(* C12: for every entry Map emits, prt is "???" exactly when the           *)
(* permission field of the entry's header line is empty, and otherwise is  *)
(* a string of exactly 3 characters, each of r, w, x, -, equal to the      *)
(* first three characters of that field.                                   *)
(***************************************************************************)
PermissionField(k) == regex_match(input[HeaderPos(k)]).g3

C12_PermissionString ==
    \A k \in 1..Len(entries) :
        LET prt == entries[k].prt
        IN  /\ prt = "???" <=> PermissionField(k) = ""
            /\ PermissionField(k) # "" =>
                   /\ Len(prt) = 3
                   /\ Chars(prt) \subseteq {"r", "w", "x", "-"}
                   /\ prt = SubSeq(PermissionField(k), 1, 3)

(***************************************************************************)
(* C13: max is "???" when the record has no VmFlags attribute; otherwise   *)
(* it has 3 characters, the read / write / execute slot being r / w / x    *)
(* exactly when mr / mw / me is one of the space-delimited tokens of       *)
(* VmFlags and - otherwise; no other token has an effect and an empty      *)
(* VmFlags gives "---".                                                    *)
(***************************************************************************)
\* word is one of the space-delimited tokens of str
HasToken(str, word) ==
    \E i \in 1..Len(str) :
        LET j == i + Len(word) - 1
        IN  /\ j <= Len(str)
            /\ SubSeq(str, i, j) = word
            /\ i = 1 \/ Ch(str, i - 1) = " "
            /\ j = Len(str) \/ Ch(str, j + 1) = " "

Slot(str, word, letter) == IF HasToken(str, word) THEN letter ELSE "-"

C13_MaxPermissionString ==
    pc = "classified" =>
        LET tags == currentLinuxEntry.tags
            max == entries[1].max
        IN  IF "VmFlags" \notin DOMAIN tags
            THEN max = "???"
            ELSE /\ Len(max) = 3
                 /\ At(max, READ_INDEX) = Slot(tags["VmFlags"], "mr", "r")
                 /\ At(max, WRITE_INDEX) = Slot(tags["VmFlags"], "mw", "w")
                 /\ At(max, EXECUTE_INDEX) = Slot(tags["VmFlags"], "me", "x")
                 /\ tags["VmFlags"] = "" => max = "---"

C13_Witness ==
    /\ pc = "classified"
    /\ "VmFlags" \in DOMAIN currentLinuxEntry.tags
    /\ currentLinuxEntry.tags["VmFlags"] = "rd ex mr me sd "
    /\ entries[1].max = "r-x"

(***************************************************************************)
(* C14: the writable split uses one predicate everywhere, the write slot   *)
(* (second character) of prt being w.  The partition of Print puts every   *)
(* entry in exactly one of nonWritable and writable by that predicate, in  *)
(* source order; the writable totals of PrintSummary (vsize, rss, swap)    *)
(* are the sums over exactly the entries of the writable list; the         *)
(* read-only-libraries totals are the sums over the non-writable entries   *)
(* whose regionType is "__TEXT".                                           *)
(***************************************************************************)
WriteSlotIsW(entry) == At(entry.prt, WRITE_INDEX) = "w"

RECURSIVE SumOver(_, _)
SumOver(field, es) ==
    IF es = <<>> THEN 0 ELSE es[1][field] + SumOver(field, Tail(es))

Partitioned ==
    /\ pc \in {"PrintSummary", "PrintMalloc", "printed"}
    /\ ~args.summary /\ ~args.interleaved

C14_OneWritablePredicate ==
    /\ Partitioned =>
           /\ lists.writable = SelectSeq(entries, WriteSlotIsW)
           /\ lists.nonWritable
                  = SelectSeq(entries, LAMBDA entry : ~WriteSlotIsW(entry))
    /\ (Partitioned /\ pc \in {"PrintMalloc", "printed"}) =>
           /\ totals.writeTotal = SumOver("vsize", lists.writable)
           /\ totals.writeRss = SumOver("rss", lists.writable)
           /\ totals.writeSwap = SumOver("swap", lists.writable)
    /\ pc \in {"PrintMalloc", "printed"} =>
           LET libraries ==
                   SelectSeq(entries, LAMBDA entry :
                       ~WriteSlotIsW(entry) /\ entry.regionType = "__TEXT")
           IN  /\ totals.readOnlyTotal = SumOver("vsize", libraries)
               /\ totals.readOnlyRss = SumOver("rss", libraries)

(***************************************************************************)
(* C15: every entry Map emits has startAddress < endAddress and            *)
(* pageSize > 0, whatever header lines and KernelPageSize attributes the   *)
(* input holds.                                                            *)
(***************************************************************************)
C15_RangeAndPageSize ==
    \A k \in 1..Len(entries) :
        /\ entries[k].startAddress < entries[k].endAddress
        /\ entries[k].pageSize > 0

(***************************************************************************)
(* C16: all entries returned by one Map call have the same pageSize, so    *)
(* the page size of the first entry, by which PrintSummary and PrintMalloc *)
(* convert every bucket, is the page size of every entry of the bucket.    *)
(***************************************************************************)
C16_OnePageSize ==
    pc = "done" =>
        \A k \in 1..Len(entries) : entries[k].pageSize = entries[1].pageSize

(***************************************************************************)
(* C17: in the list Map returns, the detail of every entry classified as   *)
(* a file mapping ("mapped file", "__TEXT" or "__DATA") is the root-       *)
(* translation prefix followed by the description of the entry's header    *)
(* line, the prefix applied exactly once; the detail of every other entry  *)
(* is as the classifier set it.                                            *)
(***************************************************************************)
Description(k) == regex_match(input[HeaderPos(k)]).g8

C17_PrefixOnFileMappings ==
    pc = "done" =>
        \A k \in 1..Len(entries) :
            IF entries[k].regionType \in {"mapped file", "__TEXT", "__DATA"}
            THEN entries[k].regionDetail
                     = "/Volumes/SystemRoot" \o Description(k)
            ELSE entries[k].regionDetail
                     = Region(classified[k]).val.regionDetail

C17_Witness ==
    /\ pc = "done"
    /\ \E j, k \in 1..Len(entries) :
        /\ entries[j].regionType = "__TEXT"
        /\ Description(j) = "/bin/true"
        /\ entries[j].regionDetail = "/Volumes/SystemRoot/bin/true"
        /\ entries[k].regionType = "Stack"
        /\ entries[k].regionDetail = "thread 7"

(***************************************************************************)
(* C18: a line that is neither a header line nor a label-and-value detail  *)
(* line (a line with no colon, or a label whose colon is followed by       *)
(* nothing or by spaces only) is skipped: reading it leaves the open       *)
(* record, its attribute map and the emitted entries unchanged and does    *)
(* not fail the request.                                                   *)
(***************************************************************************)
Unrecognized(line) == ~IsHeader(line) /\ ~IsDetail(line)

C18_UnrecognizedSkipped ==
    [][(Len(input') = Len(input) + 1 /\ Unrecognized(input'[Len(input')])) =>
            /\ currentLinuxEntry' = currentLinuxEntry
            /\ entries' = entries
            /\ pc' = pc /\ error' = error]_vars

(***************************************************************************)
(* C19: every option the help text lists, given together with a numeric    *)
(* pid, is accepted by ParseArgs and sets its flag (-v setting wide,       *)
(* submap, allSplitLibs and noCoalesce; -stacks setting interleaved and    *)
(* noCoalesce); only an argument that starts with '-' and is not listed    *)
(* is rejected as an unrecognized option.                                  *)
(***************************************************************************)
FlagsOf(option) ==
    IF option \in {"-w", "-wide"} THEN {"wide"}
    ELSE IF option \in {"-v", "-verbose"}
    THEN {"wide", "submap", "allSplitLibs", "noCoalesce"}
    ELSE IF option = "-stacks" THEN {"stacks", "interleaved", "noCoalesce"}
    ELSE {SubSeq(option, 2, Len(option))}

IsPid(arg) == arg # "" /\ Chars(arg) \subseteq Digits

C19_HelpOptionsAccepted ==
    pc \in {"main", "failed"} =>
        /\ (/\ \A i \in 1..Len(argv) : argv[i] \in HelpOptions \/ IsPid(argv[i])
            /\ \E i \in 1..Len(argv) : IsPid(argv[i]))
           => /\ pc = "main"
              /\ \A i \in 1..Len(argv) :
                    argv[i] \in HelpOptions =>
                        \A flag \in FlagsOf(argv[i]) : args[flag]
        /\ \A i \in 1..Len(argv) :
              error = "[invalid usage]: unrecognized option '" \o argv[i] \o "'"
                  => /\ argv[i] # "" /\ Ch(argv[i], 1) = "-"
                     /\ argv[i] \notin HelpOptions

(***************************************************************************)
(* C20: for every input Map accepts without error, an input with no header *)
(* line or with exactly one included, the entry list handed to Print is    *)
(* non-empty whenever Print, PrintSummary or PrintMalloc reads the page    *)
(* size of its first entry: the first element of an empty list is never    *)
(* read.                                                                   *)
(***************************************************************************)
C20_FirstEntryExists ==
    pageSize # <<>> => entries # <<>>

(***************************************************************************)
(* C21: PrintSummary never computes a percentage with a zero denominator:  *)
(* whenever Percent is evaluated its second argument, the read-only-       *)
(* libraries total or the writable total, is not zero, for every entry     *)
(* list, one with no non-writable "__TEXT" entry or no writable entry      *)
(* included.                                                               *)
(***************************************************************************)
C21_NonZeroDenominator ==
    \A i \in 1..Len(percents) : percents[i].t2 # 0

====
